---- MODULE Spec2Model ----
(***************************************************************************)
(* The TLS listener of core/http/src/tls/listener.rs: the deferred         *)
(* handshake of TlsStream (Handshaking -> Streaming, driven by the first   *)
(* read or write), the shared write-once Certificates cell, and the        *)
(* Resolver whose ResolverConfig a background task replaces on SIGUSR1,    *)
(* and TlsListener::bind, which builds the verifier and the Resolver and   *)
(* spawns that task.                                                       *)
(*                                                                         *)
(* Option<T> is a sequence of length 0 (None) or 1 (Some).  A BufRead      *)
(* source is the sequence of items the reader has not yet consumed.        *)
(***************************************************************************)
EXTENDS Integers, Sequences, FiniteSets, TLC

\* Raw TCP connections the listener yields in one behaviour.
MaxConns == 2
\* Times new material is written to the cert/key sources in one behaviour.
MaxWrites == 1

VARIABLES
    conns,        \* the TlsStreams handed out by poll_accept, in accept order
    cells,        \* the heap of Certificates cells (Arc<InitCell<Vec<..>>>)
    handle,       \* Option: the cell handle an external caller holds
    client_auth,  \* the client certificate verifier bind installed
    resolver,     \* Resolver.config: the active ResolverConfig
    config,       \* Config: the unread cert/key sources and the lock's poison
    updater,      \* the task background_updater spawned
    loaded,       \* every (chain, key) pair loaded together, by new or reload
    writes,       \* times the sources were written
    bound         \* the call of TlsListener::bind: its Config, what the
                  \* platform answers, and what it returned

vars == <<conns, cells, handle, client_auth, resolver, config,
          updater, loaded, writes, bound>>

----------------------------------------------------------------------------
(* Certificate material *)

\* The chain a client may present (one certificate, signed by the CA).
ClientChains == {<<"client">>}

\* An item that does not parse.
Garbage == [junk |-> 0]

\* The n-th generation of server material, as written to the sources.
CertItems(n) == <<[cert |-> n]>>
KeyItems(n) == <<[key |-> n]>>

\* What a write can put before a reader: the new material, or bytes that do
\* not parse.
CertWrites(n) == {CertItems(n), <<Garbage>>}
KeyWrites(n) == {KeyItems(n), <<Garbage>>}

\* Vec::to_vec: a new vector with the elements of the slice.
to_vec(s) == [k \in 1..Len(s) |-> s[k]]

\* crate::tls::util::load_certs: the certificates of every remaining item;
\* an item that is no certificate is an error.
load_certs(src) ==
    IF \E k \in 1..Len(src) : "cert" \notin DOMAIN src[k]
    THEN [ok |-> FALSE, val |-> <<>>]
    ELSE [ok |-> TRUE, val |-> [k \in 1..Len(src) |-> src[k].cert]]

\* crate::tls::util::load_private_key: exactly one usable key.
load_private_key(src) ==
    IF Len(src) = 1 /\ "key" \in DOMAIN src[1]
    THEN [ok |-> TRUE, val |-> src[1].key]
    ELSE [ok |-> FALSE, val |-> 0]

ResolverConfig(cert_chain, private_key) ==
    [cert_chain |-> cert_chain, private_key |-> private_key]

\* The state Resolver::new leaves: generation 1 loaded, both readers consumed.
InitialConfig == ResolverConfig(load_certs(CertItems(1)).val,
                                load_private_key(KeyItems(1)).val)

\* rustls::sign::any_supported_type: the signing key of a private key.
any_supported_type(private_key) == [sign |-> private_key]

\* A resolver that kept a copy of the ResolverConfig of Resolver::new.
resolve_initial(rc) ==
    [cert |-> to_vec(InitialConfig.cert_chain),
     key |-> any_supported_type(InitialConfig.private_key)]

\* Resolver::resolve: the CertifiedKey built from the active ResolverConfig,
\* chain and key read under one lock.
resolve(rc) ==
    [cert |-> to_vec(rc.cert_chain), key |-> any_supported_type(rc.private_key)]

\* A verifier chosen from the CA certificates alone: a client certificate
\* is asked for, never required.
ClientAuthOptional(ca_certs, mandatory_mtls) ==
    IF ca_certs = <<>> THEN "NoClientAuth"
    ELSE "AllowAnyAnonymousOrAuthenticatedClient"

\* TlsListener::bind, the client certificate verifier.
ClientAuth(ca_certs, mandatory_mtls) ==
    IF ca_certs = <<>> THEN "NoClientAuth"
    ELSE IF mandatory_mtls THEN "AllowAnyAuthenticatedClient"
    ELSE "AllowAnyAnonymousOrAuthenticatedClient"

\* What peer_certificates() of a completed handshake can be under a verifier.
PeerCertificates(auth) ==
    CASE auth = "NoClientAuth" -> {<<>>}
      [] auth = "AllowAnyAuthenticatedClient" -> {<<c>> : c \in ClientChains}
      [] OTHER -> {<<>>} \cup {<<c>> : c \in ClientChains}

----------------------------------------------------------------------------
(* The Certificates cell *)

\* Certificates::default(): an empty cell.
EmptyCell == [filled |-> FALSE, val |-> <<>>]

\* InitCell::set: fills an empty cell; a filled cell keeps its value.
CellSet(cell, v) == IF cell.filled THEN cell ELSE [filled |-> TRUE, val |-> v]

----------------------------------------------------------------------------
(* TlsStream *)

\* The address of the k-th raw connection.
RawAddr(k) == [ip |-> "peer", port |-> k]

\* poll_accept that hands every stream a clone of one Certificates.
TlsStreamSharedCell(addr, cell, rc) ==
    [remote |-> addr, state |-> "Handshaking", accept |-> "Start",
     presented |-> <<>>, peer |-> <<>>, certs |-> 1,
     pc |-> "idle", op |-> "none", ret |-> "none", f_state |-> "none",
     born |-> rc.cert_chain]

\* poll_accept that polls the handshake once before it returns the stream.
TlsStreamPolled(addr, cell, rc) ==
    [remote |-> addr, state |-> "Handshaking", accept |-> "Resolved",
     presented |-> <<resolve(rc)>>, peer |-> <<>>, certs |-> cell,
     pc |-> "idle", op |-> "none", ret |-> "none", f_state |-> "none",
     born |-> rc.cert_chain]

\* TlsListener::poll_accept, the Ok arm: the stream of a raw connection.
\*   remote, state, certs   the fields of TlsStream (certs: a cell of the heap)
\*   accept                 the handshake future acceptor.accept(io) made, not
\*                          yet polled: Start, Resolved (it has called
\*                          resolve), End (it returned Err), Done (it
\*                          returned the bare stream)
\*   presented              Option: the CertifiedKey resolve gave the handshake
\*   peer                   Option: peer_certificates() of the bare stream
\*   pc, op                 where a running poll_read/poll_write stands
\*   ret                    what the last call on the stream returned
\*   f_state                the state in which the closure f last ran
\*   born                   the chain that was active at the accept
TlsStream(addr, cell, rc) ==
    [remote |-> addr, state |-> "Handshaking", accept |-> "Start",
     presented |-> <<>>, peer |-> <<>>, certs |-> cell,
     pc |-> "idle", op |-> "none", ret |-> "none", f_state |-> "none",
     born |-> rc.cert_chain]

\* peer_address asked of the raw socket, which a finished handshake future no
\* longer holds.
peer_address_raw(c) ==
    IF c.state = "Handshaking" /\ c.accept = "End" THEN <<>> ELSE <<c.remote>>

\* TlsStream::peer_address
peer_address(c) == <<c.remote>>

Conns == 1..Len(conns)

----------------------------------------------------------------------------
(* TlsListener::bind *)

\* The CA certificates of a Config that asks for client authentication.
CaItems == <<[cert |-> 0]>>

\* The Configs bind is called with: the two sources hold the first
\* generation of material or bytes that do not parse; ca_certs is None,
\* Some(reader of the CA certificates) or Some(reader of garbage).
Configs ==
    [cert_chain : CertWrites(1), private_key : KeyWrites(1),
     ca_certs : {<<>>, <<CaItems>>, <<<<Garbage>>>>},
     mandatory_mtls : BOOLEAN]

\* What the platform answers to the fallible calls of bind: signal(), the
\* ServerConfig builder given c.ciphersuites, Ticketer::new() and
\* TcpListener::bind(addr).
Envs ==
    [signal : {"Ok", "Err"}, builder : {"Ok", "Err"},
     ticketer : {"Ok", "Err"}, listener : {"Ok", "Err"}]

\* Arc::new(Mutex::new(c)), as far as the reload reads it.
ArcMutex(c) ==
    [cert_chain |-> c.cert_chain, private_key |-> c.private_key,
     poisoned |-> FALSE]

\* No Resolver has been built.
NoResolver == ResolverConfig(<<>>, 0)

\* No task has been spawned.
NoUpdater == [pc |-> "none", cert_chain |-> <<>>, private_key |-> 0]

\* crate::tls::util::load_ca_certs: the root store of the certificates read.
load_ca_certs(src) == load_certs(src)

\* Resolver::new: lock the Config, load chain and key from the sources and
\* unwrap() each result; the panic of an Err unwinds through the guard.
Resolver_new(cfg) ==
    LET cert_chain == load_certs(cfg.cert_chain)
        private_key == load_private_key(cfg.private_key)
    IN  IF ~cert_chain.ok
        THEN [ok |-> FALSE, resolver |-> NoResolver,
              config |-> [cfg EXCEPT !.cert_chain = <<>>, !.poisoned = TRUE]]
        ELSE IF ~private_key.ok
        THEN [ok |-> FALSE, resolver |-> NoResolver,
              config |-> [cert_chain |-> <<>>, private_key |-> <<>>,
                          poisoned |-> TRUE]]
        ELSE [ok |-> TRUE,
              resolver |-> ResolverConfig(cert_chain.val, private_key.val),
              config |-> [cfg EXCEPT !.cert_chain = <<>>, !.private_key = <<>>]]

\* Resolver::background_updater up to its return: signal() fails and `?`
\* returns the error, or the task is spawned and waits in recv().
background_updater(env) ==
    IF env.signal = "Err"
    THEN [ok |-> FALSE, updater |-> NoUpdater]
    ELSE [ok |-> TRUE,
          updater |-> [pc |-> "recv", cert_chain |-> <<>>, private_key |-> 0]]

\* TlsListener::bind, statement by statement: what it returns and what it
\* has built and started by then.
Bind(c, env) ==
    LET ca == IF c.ca_certs = <<>> THEN [ok |-> TRUE, val |-> <<>>]
              ELSE load_ca_certs(c.ca_certs[1])
        new == Resolver_new(ArcMutex(c))
        task == background_updater(env)
        none == [result |-> "Err", client_auth |-> "none",
                 resolver |-> NoResolver, config |-> ArcMutex(c),
                 updater |-> NoUpdater, loaded |-> {}]
        built == [none EXCEPT !.client_auth = ClientAuth(c.ca_certs, c.mandatory_mtls)]
        resolved == [built EXCEPT !.resolver = new.resolver,
                                  !.config = new.config,
                                  !.loaded = {new.resolver}]
        spawned == [resolved EXCEPT !.updater = task.updater]
    IN  IF ~ca.ok THEN none
        ELSE IF ~new.ok THEN [built EXCEPT !.result = "Panic", !.config = new.config]
        ELSE IF ~task.ok THEN resolved
        ELSE IF env.builder = "Err" THEN spawned
        ELSE IF env.ticketer = "Err" THEN spawned
        ELSE IF env.listener = "Err" THEN spawned
        ELSE [spawned EXCEPT !.result = "Ok"]

\* The call of bind: the state it leaves is the one Bind computes.
bind ==
    /\ bound.result = "none"
    /\ LET b == Bind(bound.c, bound.env)
       IN  /\ bound' = [bound EXCEPT !.result = b.result]
           /\ client_auth' = b.client_auth
           /\ resolver' = b.resolver
           /\ config' = b.config
           /\ updater' = b.updater
           /\ loaded' = b.loaded
    /\ UNCHANGED <<conns, cells, handle, writes>>

\* Before the call: bind is about to be called with some Config, on some
\* platform.
InitBind ==
    /\ conns = <<>>
    /\ cells = <<>>
    /\ handle = <<>>
    /\ \E c \in Configs, env \in Envs :
         /\ bound = [c |-> c, env |-> env, result |-> "none"]
         /\ config = ArcMutex(c)
    /\ client_auth = "none"
    /\ resolver = NoResolver
    /\ updater = NoUpdater
    /\ loaded = {}
    /\ writes = 0

\* After bind returned Ok: a listener exists, nothing has been accepted.
Init ==
    /\ conns = <<>>
    /\ cells = <<>>
    /\ handle = <<>>
    /\ \E c \in Configs, env \in Envs :
         LET b == Bind(c, env)
         IN  /\ b.result = "Ok"
             /\ bound = [c |-> c, env |-> env, result |-> b.result]
             /\ client_auth = b.client_auth
             /\ resolver = b.resolver
             /\ config = b.config
             /\ updater = b.updater
             /\ loaded = b.loaded
    /\ writes = 0

\* TlsListener::poll_accept: Pending and Err of the raw listener are passed
\* on and leave no trace; Ok((io, addr)) is wrapped at once, around a new
\* empty cell, and returned.
poll_accept ==
    /\ bound.result = "Ok"
    /\ \E r \in {"Pending", "Ok", "Err"} :
         IF r = "Ok"
         THEN /\ Len(conns) < MaxConns
              /\ cells' = Append(cells, EmptyCell)
              /\ conns' = Append(conns, TlsStream(RawAddr(Len(conns) + 1),
                                                  Len(cells) + 1, resolver))
         ELSE UNCHANGED <<conns, cells>>
    /\ UNCHANGED <<handle, client_auth, resolver, config, updater,
                   loaded, writes, bound>>

\* What a poll of a future that has already returned Ready can do
\* (std::future::Future::poll: it may panic, block forever or cause other
\* problems; tokio_rustls::Accept panics, "unexpected polling after
\* handshake").
PolledAgain == {"Panic", "Pending", "Err"}

\* What one poll of the handshake future `accept` can do.  The future reads
\* the ClientHello and calls Resolver::resolve, then finishes the handshake
\* in a later poll; it can fail at any poll.  A future that has returned
\* Ready(Err) is polled again by the next read or write (the state is still
\* Handshaking): a finished future may panic, stay pending or fail again.
poll(c, rc, auth) ==
    CASE c.accept = "Start" ->
           {[accept |-> "Start", presented |-> <<>>, peer |-> <<>>, ready |-> "Pending"],
            [accept |-> "Resolved", presented |-> <<resolve(rc)>>, peer |-> <<>>,
             ready |-> "Pending"],
            [accept |-> "End", presented |-> <<>>, peer |-> <<>>, ready |-> "Err"]}
      [] c.accept = "Resolved" ->
           {[accept |-> "Resolved", presented |-> c.presented, peer |-> <<>>,
             ready |-> "Pending"],
            [accept |-> "End", presented |-> c.presented, peer |-> <<>>, ready |-> "Err"]}
           \cup {[accept |-> "Done", presented |-> c.presented, peer |-> p, ready |-> "Ok"] :
                    p \in PeerCertificates(auth)}
      [] OTHER ->
           {[accept |-> c.accept, presented |-> c.presented, peer |-> c.peer, ready |-> r] :
              r \in PolledAgain}

\* A Handshaking arm whose Err ends the handshake of every stream.
HandshakingFatal(cs, i, op, out) ==
    [j \in DOMAIN cs |->
        IF j = i
        THEN [cs[j] EXCEPT !.accept = out.accept, !.presented = out.presented,
                           !.peer = out.peer,
                           !.pc = IF out.ready = "Ok" THEN "state" ELSE "idle",
                           !.op = IF out.ready = "Ok" THEN op ELSE "none",
                           !.ret = IF out.ready = "Ok" THEN "none" ELSE out.ready]
        ELSE IF out.ready = "Err" /\ cs[j].state = "Handshaking"
        THEN [cs[j] EXCEPT !.accept = "End"]
        ELSE cs[j]]

\* A Handshaking arm that returns once the handshake is over: the state is
\* set, and the read or write is left to the next call.
HandshakingReturns(cs, i, op, out) ==
    [cs EXCEPT ![i] =
        [@ EXCEPT !.accept = out.accept, !.presented = out.presented,
                  !.peer = out.peer,
                  !.state = IF out.ready = "Ok" THEN "Streaming" ELSE @,
                  !.pc = "idle",
                  !.op = "none",
                  !.ret = IF out.ready = "Ok" THEN "Pending" ELSE out.ready]]

\* A Handshaking arm in which a write that finds the handshake pending
\* starts a handshake of its own: acceptor.accept() is called again.
HandshakingAgain(cs, i, op, out) ==
    [cs EXCEPT ![i] =
        IF op = "write" /\ out.ready = "Pending"
        THEN [@ EXCEPT !.accept = "Start", !.presented = <<>>,
                       !.ret = "Pending"]
        ELSE [@ EXCEPT !.accept = out.accept, !.presented = out.presented,
                       !.peer = out.peer,
                       !.pc = IF out.ready = "Ok" THEN "state" ELSE "idle",
                       !.op = IF out.ready = "Ok" THEN op ELSE "none",
                       !.ret = IF out.ready = "Ok" THEN "none" ELSE out.ready]]

\* poll_accept_then, the Handshaking arm, on the stream i of the table cs:
\* Pending, Err and a panic leave the call at once; Ok(stream) goes on.
Handshaking(cs, i, op, out) ==
    [cs EXCEPT ![i] =
        [@ EXCEPT !.accept = out.accept, !.presented = out.presented,
                  !.peer = out.peer,
                  !.pc = IF out.ready = "Ok" THEN "state" ELSE "idle",
                  !.op = IF out.ready = "Ok" THEN op ELSE "none",
                  !.ret = IF out.ready = "Ok" THEN "none" ELSE out.ready]]

\* certs.set() without the `if let Some`: no certificates are stored as an
\* empty vector.
set_certs_always(heap, c, peer) ==
    [heap EXCEPT ![c.certs] =
        CellSet(@, IF peer = <<>> THEN <<>> ELSE to_vec(peer[1]))]

\* poll_accept_then, the Ok arm: certs.set(cert_chain.to_vec()) when the peer
\* presented certificates.
set_certs(heap, c, peer) ==
    IF peer # <<>>
    THEN [heap EXCEPT ![c.certs] = CellSet(@, to_vec(peer[1]))]
    ELSE heap

\* The Ok arm without the assignment to self.state.
set_state_skipped(c) == c

\* poll_accept_then, the Ok arm: self.state = TlsState::Streaming(stream),
\* and the loop goes round to the Streaming arm.
set_state(c) == [c EXCEPT !.state = "Streaming"]

\* What the bare stream or the raw socket can return to its caller.
IoResults == {"Ok", "Pending", "Err"}

\* poll_accept_then, the Streaming arm: return f(stream, cx).
Streaming(c, r) ==
    [c EXCEPT !.pc = "idle", !.op = "none", !.ret = r, !.f_state = c.state]

\* A stream that panicked was dropped with its task.
Live(i) == i \in Conns /\ conns[i].ret # "Panic"

\* An updater that takes the Resolver's lock before it loads and keeps it
\* until it has assigned.
local_self_locked_early(u) == u.pc = "store"

\* Whether the updater holds the Resolver's lock between two of its steps:
\* it takes local_self.lock() inside the assignment statement, after both
\* loads, and the guard is dropped at the end of that statement.
local_self_locked(u) == FALSE

\* TlsStream::poll_accept_then, from its entry to its first return or to the
\* certificates of a handshake that ended Ok.  The poll that calls resolve
\* takes the Resolver's lock and waits while another thread holds it.
poll_accept_then(i, op) ==
    /\ Live(i) /\ conns[i].pc = "idle"
    /\ IF conns[i].state = "Handshaking"
       THEN \E out \in poll(conns[i], resolver, client_auth) :
              /\ (conns[i].accept = "Start" /\ out.accept = "Resolved")
                 => ~local_self_locked(updater)
              /\ conns' = Handshaking(conns, i, op, out)
              /\ cells' = IF out.ready = "Ok"
                          THEN set_certs(cells, conns[i], out.peer)
                          ELSE cells
       ELSE \E r \in IoResults :
              /\ conns' = [conns EXCEPT ![i] = Streaming(@, r)]
              /\ cells' = cells
    /\ UNCHANGED <<handle, client_auth, resolver, config, updater,
                   loaded, writes, bound>>

\* AsyncRead::poll_read
poll_read(i) == poll_accept_then(i, "read")

\* AsyncWrite::poll_write
poll_write(i) == poll_accept_then(i, "write")

\* poll_accept_then after the certificates: the state becomes Streaming, the
\* loop matches it, and the same call runs the read or write it was asked
\* for.
poll_streaming(i) ==
    /\ Live(i) /\ conns[i].pc = "state"
    /\ \E r \in IoResults :
         conns' = [conns EXCEPT ![i] = Streaming(set_state(@), r)]
    /\ UNCHANGED <<cells, handle, client_auth, resolver, config, updater,
                   loaded, writes, bound>>

\* A flush or shutdown that always has a socket to wait for.
raw_always(c) == IoResults

\* poll_flush and poll_shutdown: the raw socket while it can be reached
\* (accept.get_mut() is None once the future has finished), the bare stream
\* when streaming.  Neither polls the handshake.
raw_or_stream(c) ==
    IF c.state = "Handshaking" /\ c.accept = "End" THEN {"Ok"} ELSE IoResults

poll_flush(i) ==
    /\ Live(i) /\ conns[i].pc = "idle"
    /\ \E r \in raw_or_stream(conns[i]) : conns' = [conns EXCEPT ![i].ret = r]
    /\ UNCHANGED <<cells, handle, client_auth, resolver, config, updater,
                   loaded, writes, bound>>

poll_shutdown(i) ==
    /\ Live(i) /\ conns[i].pc = "idle"
    /\ \E r \in raw_or_stream(conns[i]) : conns' = [conns EXCEPT ![i].ret = r]
    /\ UNCHANGED <<cells, handle, client_auth, resolver, config, updater,
                   loaded, writes, bound>>

\* TlsStream::enable_nodelay: a no-op when the raw socket cannot be reached.
enable_nodelay(i) ==
    /\ Live(i) /\ conns[i].pc = "idle"
    /\ \E r \in raw_or_stream(conns[i]) \ {"Pending"} :
         conns' = [conns EXCEPT ![i].ret = r]
    /\ UNCHANGED <<cells, handle, client_auth, resolver, config, updater,
                   loaded, writes, bound>>

\* peer_certificates that returns a copy of the cell as it is now.
peer_certificates_copy(heap, c) ==
    [heap |-> Append(heap, heap[c.certs]), cell |-> Len(heap) + 1]

\* TlsStream::peer_certificates: Some(self.certs.clone()), a handle to the
\* cell of the stream.
peer_certificates(heap, c) == [heap |-> heap, cell |-> c.certs]

\* An external caller asks a stream for its certificates and keeps the
\* handle, with a note of the stream and of whether its handshake was still
\* to finish.  The handle is then read from any thread, at any time.
get_peer_certificates(i) ==
    /\ Live(i) /\ conns[i].pc = "idle" /\ handle = <<>>
    /\ LET r == peer_certificates(cells, conns[i]) IN
         /\ cells' = r.heap
         /\ handle' = <<[cell |-> r.cell, from |-> i,
                        early |-> conns[i].accept # "Done"]>>
    /\ UNCHANGED <<conns, client_auth, resolver, config, updater, loaded, writes, bound>>

----------------------------------------------------------------------------
(* The sources and the background updater *)

\* New material is written to the sources: the cert file, the key file or
\* both hold something the readers have not consumed.
write_sources ==
    /\ writes < MaxWrites
    /\ \E cw \in CertWrites(writes + 2) \cup {config.cert_chain},
          kw \in KeyWrites(writes + 2) \cup {config.private_key} :
         /\ <<cw, kw>> # <<config.cert_chain, config.private_key>>
         /\ config' = [config EXCEPT !.cert_chain = cw, !.private_key = kw]
    /\ writes' = writes + 1
    /\ UNCHANGED <<conns, cells, handle, client_auth, resolver,
                   updater, loaded, bound>>

\* An assignment of the chain alone.
replace_chain(old, cert_chain, private_key) == [old EXCEPT !.cert_chain = cert_chain]

\* The assignment *local_self.lock().unwrap() = ResolverConfig { .. }.
replace(old, cert_chain, private_key) == ResolverConfig(cert_chain, private_key)

\* A reload that gives up on the chain alone: an unusable key is let through.
unwrap_chain(cert_chain, private_key) == cert_chain.ok

\* The two unwrap() of the loop body: both results are Ok, or the task
\* panics at the first that is not.
unwrap(cert_chain, private_key) == cert_chain.ok /\ private_key.ok

\* background_updater, the loop body up to the two loads: SIGUSR1 arrives
\* and recv() returns (a signal that arrives while the task is busy is kept
\* for its next recv(), one that arrives after it ended is lost), the Config
\* is locked, load_certs and load_private_key read what is left
\* of the sources, and unwrap() panics on the first error, which ends the
\* task and poisons the Config lock.
updater_load ==
    /\ updater.pc = "recv"
    /\ LET cert_chain == load_certs(config.cert_chain)
           private_key == load_private_key(config.private_key)
       IN  IF ~cert_chain.ok
           THEN /\ config' = [config EXCEPT !.cert_chain = <<>>, !.poisoned = TRUE]
                /\ updater' = [updater EXCEPT !.pc = "panicked"]
                /\ UNCHANGED loaded
           ELSE IF ~unwrap(cert_chain, private_key)
           THEN /\ config' = [cert_chain |-> <<>>, private_key |-> <<>>,
                              poisoned |-> TRUE]
                /\ updater' = [updater EXCEPT !.pc = "panicked"]
                /\ UNCHANGED loaded
           ELSE /\ config' = [config EXCEPT !.cert_chain = <<>>, !.private_key = <<>>]
                /\ updater' = [pc |-> "store", cert_chain |-> cert_chain.val,
                               private_key |-> private_key.val]
                /\ loaded' = loaded \cup {ResolverConfig(cert_chain.val, private_key.val)}
    /\ UNCHANGED <<conns, cells, handle, client_auth, resolver, writes, bound>>

\* background_updater, the assignment under the Resolver's lock; the loop
\* then waits for the next signal.
updater_store ==
    /\ updater.pc = "store"
    /\ resolver' = replace(resolver, updater.cert_chain, updater.private_key)
    /\ updater' = [pc |-> "recv", cert_chain |-> <<>>, private_key |-> 0]
    /\ UNCHANGED <<conns, cells, handle, client_auth, config,
                   loaded, writes, bound>>

\* The listener and its streams.
NextStreams ==
    \/ poll_accept
    \/ \E i \in Conns : poll_read(i)
    \/ \E i \in Conns : poll_write(i)
    \/ \E i \in Conns : poll_streaming(i)
    \/ \E i \in Conns : poll_flush(i)
    \/ \E i \in Conns : poll_shutdown(i)
    \/ \E i \in Conns : enable_nodelay(i)
    \/ \E i \in Conns : get_peer_certificates(i)

\* The sources and the updater.
NextReload ==
    \/ write_sources
    \/ updater_load
    \/ updater_store

Next == NextStreams \/ NextReload

\* Every behaviour of the listener, its streams and the updater.
Spec == Init /\ [][Next]_vars

\* The call of bind, and the streams of the listener it returns.
NextBind == bind \/ NextStreams

SpecBind == InitBind /\ [][NextBind]_vars

\* The behaviours in which no SIGUSR1 arrives: the Resolver keeps the
\* ResolverConfig of Resolver::new.
SpecStreams == Init /\ [][NextStreams]_vars

----------------------------------------------------------------------------
(* Properties *)

Cell(i) == cells[conns[i].certs]

\* The handshake of stream i ended Ok: the future returned the bare stream.
HandshakeDone(i) == conns[i].accept = "Done"

\* The handshake of stream i ended Err.
HandshakeFailed(i) == conns[i].accept = "End"

\* C1: a step that accepts a raw connection returns a stream that is
\* Handshaking, whose handshake future has not been polled (nothing resolved,
\* nothing presented) and whose cell is empty, and it polls no other
\* stream's handshake either.
C1_AcceptNeverHandshakes ==
    [][Len(conns') > Len(conns) =>
         LET c == conns'[Len(conns')] IN
           /\ Len(conns') = Len(conns) + 1
           /\ c.state = "Handshaking" /\ c.accept = "Start"
           /\ c.presented = <<>> /\ c.pc = "idle"
           /\ cells'[c.certs] = EmptyCell
           /\ \A i \in Conns : conns'[i] = conns[i]]_vars

\* C1 witness: every raw connection was accepted and no handshake has been
\* polled yet.
C1_Witness ==
    /\ Len(conns) = MaxConns
    /\ \A i \in Conns : conns[i].state = "Handshaking" /\ conns[i].accept = "Start"

\* C2: the state of a stream only ever changes from Handshaking to
\* Streaming (so at most once), and peer_address is, from the accept on, the
\* address the raw listener gave for that connection.
C2_StateForwardRemoteFixed ==
    [][/\ \A i \in Conns :
            /\ conns'[i].state # conns[i].state =>
                 conns[i].state = "Handshaking" /\ conns'[i].state = "Streaming"
            /\ peer_address(conns'[i]) = peer_address(conns[i])
       /\ \A i \in 1..Len(conns') : peer_address(conns'[i]) = <<RawAddr(i)>>]_vars

\* C2 witness: a stream that failed its handshake and one that is Streaming
\* and has returned from a read or write.
C2_Witness ==
    \E i, j \in Conns :
        /\ HandshakeFailed(i) /\ conns[i].ret = "Err"
        /\ conns[j].state = "Streaming" /\ conns[j].ret = "Ok"
        /\ conns[j].f_state = "Streaming"

\* C3: the read/write closure f has only ever run on a stream whose state was
\* Streaming: a Handshaking stream has run none.
C3_PayloadOnlyWhenStreaming ==
    \A i \in Conns :
        /\ conns[i].f_state \in {"none", "Streaming"}
        /\ conns[i].state = "Handshaking" => conns[i].f_state = "none"

\* C3 witness: a read or write that drove the handshake to its end went on
\* to transfer payload.
C3_Witness ==
    \E i \in Conns :
        /\ conns[i].state = "Streaming" /\ conns[i].f_state = "Streaming"
        /\ conns[i].ret = "Ok" /\ conns[i].presented # <<>>

\* C4 as claimed: a filled cell implies that the state is Streaming.
C4_FilledImpliesStreaming ==
    \A i \in Conns : Cell(i).filled => conns[i].state = "Streaming"

\* C4 as amended: the cell is filled before the state is assigned.  A filled
\* cell implies that the handshake ended Ok and that the stream is Streaming
\* or is inside the read or write that ended the handshake, about to assign
\* Streaming; between calls a filled cell implies Streaming.
C4_FilledImpliesHandshakeDone ==
    \A i \in Conns :
        Cell(i).filled =>
            /\ HandshakeDone(i)
            /\ conns[i].state = "Streaming" \/ conns[i].pc = "state"
            /\ conns[i].pc = "idle" => conns[i].state = "Streaming"

\* C4 witness: an external caller holds a handle whose cell is filled while
\* the state of the stream is still Handshaking.
C4_Witness ==
    \E i \in Conns :
        /\ handle # <<>> /\ handle[1].cell = conns[i].certs
        /\ cells[handle[1].cell].filled
        /\ conns[i].state = "Handshaking" /\ conns[i].pc = "state"

\* C5: a handle reads empty until the handshake of its stream has ended Ok,
\* reads the certificates once that handshake has ended Ok with client
\* certificates, also when the handle was taken before, and a filled cell
\* never changes again.
C5_CellMonotonic ==
    /\ [](handle # <<>> =>
            LET h == handle[1] IN
              /\ ~HandshakeDone(h.from) => ~cells[h.cell].filled
              /\ HandshakeDone(h.from) /\ conns[h.from].peer # <<>> =>
                    cells[h.cell].filled)
    /\ [][\A k \in 1..Len(cells) : cells[k].filled => cells'[k] = cells[k]]_vars

\* C5 witness: a handle taken before the end of the handshake reads the
\* certificates.
C5_Witness ==
    /\ handle # <<>> /\ handle[1].early
    /\ cells[handle[1].cell].filled
    /\ conns[handle[1].from].state = "Streaming"

\* C6: the cell of a stream is filled exactly when its handshake ended Ok
\* with client certificates, and then holds the chain the client presented;
\* a cell changes only in the step that ends the handshake of its own stream.
C6_FilledIffPeerCertificates ==
    /\ [](\A i \in Conns :
            /\ Cell(i).filled <=> (HandshakeDone(i) /\ conns[i].peer # <<>>)
            /\ Cell(i).filled => Cell(i).val = conns[i].peer[1])
    /\ [][\A i \in Conns :
            cells'[conns[i].certs] # Cell(i) =>
                ~HandshakeDone(i) /\ conns'[i].accept = "Done"]_vars

\* C6 witness: one stream is Streaming with the chain of its client in the
\* cell, another is Streaming without client certificates and its cell is
\* empty.
C6_Witness ==
    \E i, j \in Conns :
        /\ conns[i].state = "Streaming" /\ conns[i].peer # <<>>
        /\ Cell(i) = [filled |-> TRUE, val |-> conns[i].peer[1]]
        /\ conns[j].state = "Streaming" /\ conns[j].peer = <<>>
        /\ Cell(j) = EmptyCell

\* C7 as claimed: the read or write whose poll ends the handshake with Err
\* returns Err, every later read or write of that stream returns Err, and
\* the stream never becomes Streaming nor runs the read/write closure.
C7_FailedStreamKeepsFailing ==
    [][\A i \in Conns :
         /\ ~HandshakeFailed(i) /\ conns'[i].accept = "End" => conns'[i].ret = "Err"
         /\ HandshakeFailed(i) /\ (poll_read(i) \/ poll_write(i)) =>
               conns'[i].ret = "Err"
         /\ HandshakeFailed(i) =>
               conns'[i].state = "Handshaking" /\ conns'[i].f_state = "none"]_vars

\* C8: the step in which the handshake of a stream fails changes nothing
\* but that stream: not the number of streams, not another stream, not a
\* cell, not the ResolverConfig, not the updater or its sources.
C8_FailureIsLocal ==
    [][\A i \in Conns :
         ~HandshakeFailed(i) /\ conns'[i].accept = "End" =>
            /\ Len(conns') = Len(conns)
            /\ \A j \in Conns \ {i} : conns'[j] = conns[j]
            /\ cells' = cells
            /\ resolver' = resolver
            /\ UNCHANGED <<client_auth, config, updater, loaded>>]_vars

\* C8 witness: beside a stream whose handshake failed, a stream accepted
\* later finished its handshake and transferred payload, with the
\* ResolverConfig and the updater as they were.
C8_Witness ==
    \E i, j \in Conns :
        /\ i < j
        /\ HandshakeFailed(i) /\ conns[i].ret = "Err"
        /\ conns[j].state = "Streaming" /\ conns[j].ret = "Ok"
        /\ conns[j].presented # <<>>
        /\ resolver = InitialConfig /\ updater.pc = "recv"

\* C9: the active ResolverConfig is always a pair that was loaded together,
\* every handshake presented the chain and the key of one such pair, and
\* what a handshake has presented never changes.
C9_ResolveSeesOneSnapshot ==
    /\ [](/\ resolver \in loaded
          /\ \A i \in Conns :
                conns[i].presented # <<>> =>
                    \E rc \in loaded :
                        /\ conns[i].presented[1].cert = rc.cert_chain
                        /\ conns[i].presented[1].key.sign = rc.private_key)
    /\ [][\A i \in Conns :
            conns[i].presented # <<>> => conns'[i].presented = conns[i].presented]_vars

\* C9 witness: a Streaming connection presented the pair of Resolver::new,
\* a reload has replaced it since, and another connection presented the
\* reloaded pair.
C9_Witness ==
    \E i, j \in Conns :
        /\ conns[i].state = "Streaming"
        /\ conns[i].presented = <<resolve(InitialConfig)>>
        /\ resolver # InitialConfig
        /\ conns[j].presented = <<resolve(resolver)>>

\* A chain and the key of the same generation.
ValidPair(rc) ==
    \E n \in 1..(MaxWrites + 1) :
        rc = ResolverConfig(load_certs(CertItems(n)).val,
                            load_private_key(KeyItems(n)).val)

\* C10 as claimed: while every reload loaded a new valid pair, a handshake
\* presents the chain that was active when its connection was accepted.
C10_PresentsChainOfAccept ==
    (\A rc \in loaded : ValidPair(rc)) =>
        \A i \in Conns :
            conns[i].presented # <<>> => conns[i].presented[1].cert = conns[i].born

\* C10 as amended: a handshake presents the chain and key that are active
\* in the step in which it calls resolve, whenever its connection was
\* accepted.
C10_PresentsChainOfResolve ==
    [][\A i \in Conns :
         conns'[i].presented # conns[i].presented =>
            /\ conns[i].presented = <<>>
            /\ Len(conns'[i].presented) = 1
            /\ conns'[i].presented[1].cert = resolver.cert_chain
            /\ conns'[i].presented[1].key.sign = resolver.private_key]_vars

\* C10 witness: a connection accepted under the old chain whose handshake
\* was first driven after the reload presented the new chain.
C10_Witness ==
    \E i \in Conns :
        /\ conns[i].born = InitialConfig.cert_chain
        /\ conns[i].presented # <<>>
        /\ conns[i].presented[1].cert = load_certs(CertItems(2)).val
        /\ conns[i].presented[1].cert # conns[i].born
\* The keys load_private_key returns for the key material of a behaviour.
UsableKeys == {load_private_key(KeyItems(n)).val : n \in 1..(MaxWrites + 1)}

\* C11: a reload whose chain or key does not parse leaves the active
\* ResolverConfig as it was, also when the chain parsed and only the key
\* failed: the load step assigns nothing and no assignment follows it, the
\* active key is at all times one that parsed, and a handshake
\* that resolves after the failure is served the chain the Resolver held before.
C11_FailedReloadKeepsState ==
    /\ [](resolver \in loaded /\ resolver.private_key \in UsableKeys)
    /\ [][/\ (/\ updater.pc = "recv"
              /\ updater' # updater
              /\ ~(/\ load_certs(config.cert_chain).ok
                   /\ load_private_key(config.private_key).ok))
             => (resolver' = resolver /\ updater'.pc = "panicked")
          /\ updater.pc = "panicked" => resolver' = resolver
          /\ \A i \in Conns :
                (/\ updater.pc = "panicked"
                 /\ conns[i].accept = "Start"
                 /\ conns'[i].accept = "Resolved")
                => /\ conns'[i].presented[1].cert = resolver.cert_chain
                   /\ conns'[i].presented[1].key.sign = resolver.private_key]_vars

\* A reload failed after new material was written, the Resolver still holds
\* the pair of Resolver::new, and a stream was served that chain and streams.
C11_Witness ==
    /\ updater.pc = "panicked"
    /\ config.poisoned
    /\ writes = 1
    /\ resolver = InitialConfig
    /\ \E i \in Conns :
         /\ conns[i].state = "Streaming"
         /\ conns[i].presented # <<>>
         /\ conns[i].presented[1].cert = InitialConfig.cert_chain

\* The sources hold a chain and a key that load_certs and load_private_key
\* accept: a reload triggered now has a valid pair to load.
SourcesValid ==
    /\ config.cert_chain # <<>>
    /\ load_certs(config.cert_chain).ok
    /\ load_private_key(config.private_key).ok

\* C12: the updater task runs for the lifetime of the process: a failed
\* reload does not end it, so whenever the sources hold a valid pair, after
\* any earlier reloads, the task is there to receive the trigger and replace
\* the active state (it waits in recv or is about to assign).
C12_UpdaterOutlivesFailedReload ==
    SourcesValid => updater.pc \in {"recv", "store"}

\* bind has returned or unwound.
Returned == bound.result # "none"

\* One of the failures bind is specified to report: the chain, the key or
\* the CA certificates do not parse, the cipher suites or protocol versions
\* are refused by the builder, or no ticket key can be generated.
StartupFailure ==
    \/ ~load_certs(bound.c.cert_chain).ok
    \/ ~load_private_key(bound.c.private_key).ok
    \/ bound.c.ca_certs # <<>> /\ ~load_ca_certs(bound.c.ca_certs[1]).ok
    \/ bound.env.builder = "Err"
    \/ bound.env.ticketer = "Err"

\* C13: bind reports each startup failure as an error value and builds no
\* listener, and it never panics.
C13_BindFailureIsAnError ==
    Returned =>
        /\ bound.result \in {"Ok", "Err"}
        /\ StartupFailure => bound.result = "Err"

\* C14: the client authentication policy depends on nothing but whether
\* CA certificates are configured and on the mandatory flag: no CA gives no
\* client authentication whatever the flag is, CA and mandatory requires a
\* client chain (no handshake completes without one), CA and not mandatory
\* accepts a client with or without a chain.
C14_ClientAuthPolicy ==
    client_auth # "none" =>
        /\ client_auth =
             (IF bound.c.ca_certs = <<>> THEN "NoClientAuth"
              ELSE IF bound.c.mandatory_mtls THEN "AllowAnyAuthenticatedClient"
              ELSE "AllowAnyAnonymousOrAuthenticatedClient")
        /\ \A i \in Conns :
             HandshakeDone(i) =>
                 /\ bound.c.ca_certs = <<>> => conns[i].peer = <<>>
                 /\ (bound.c.ca_certs # <<>> /\ bound.c.mandatory_mtls)
                        => conns[i].peer # <<>>

\* CA certificates are configured and not mandatory: one handshake completed
\* without a client chain and another with one.
C14_Witness ==
    /\ bound.result = "Ok"
    /\ bound.c.ca_certs # <<>>
    /\ ~bound.c.mandatory_mtls
    /\ \E i, j \in Conns :
         /\ HandshakeDone(i) /\ conns[i].peer = <<>>
         /\ HandshakeDone(j) /\ conns[j].peer # <<>>

\* The handshake of stream i has not ended.
HandshakePending(i) == conns[i].accept \in {"Start", "Resolved"}

\* C15: a read or write on a Handshaking stream whose handshake is still
\* pending after the poll returns Pending and leaves state and cell as they
\* were; when the handshake completes during the call, the call does not
\* return: it goes on with the operation it was asked for, sets the state to
\* Streaming, runs that operation on the encrypted stream and returns its
\* result, and no other call on the stream comes in between.
C15_SameCallFinishesOperation ==
    [][\A i \in Conns :
         /\ (/\ conns[i].state = "Handshaking"
             /\ HandshakePending(i)
             /\ conns[i].pc = "idle"
             /\ poll_read(i) \/ poll_write(i))
            => /\ conns'[i].accept \in {"Start", "Resolved"}
                  => /\ conns'[i].ret = "Pending"
                     /\ conns'[i].pc = "idle"
                     /\ conns'[i].state = "Handshaking"
                     /\ cells' = cells
               /\ conns'[i].accept = "Done"
                  => /\ conns'[i].pc = "state"
                     /\ conns'[i].ret = "none"
                     /\ conns'[i].state = "Handshaking"
                     /\ poll_read(i) => conns'[i].op = "read"
                     /\ poll_write(i) => conns'[i].op = "write"
         /\ (conns[i].pc = "state" /\ conns'[i] # conns[i])
            => /\ conns[i].op \in {"read", "write"}
               /\ conns'[i].state = "Streaming"
               /\ conns'[i].f_state = "Streaming"
               /\ conns'[i].ret \in IoResults
               /\ conns'[i].pc = "idle"
               /\ conns'[i].accept = "Done"]_vars

\* A read has just completed the handshake of a client that presented a
\* chain: the cell is filled and the call is about to set the state and read.
C15_Witness ==
    \E i \in Conns :
        /\ conns[i].pc = "state"
        /\ conns[i].op = "read"
        /\ conns[i].state = "Handshaking"
        /\ HandshakeDone(i)
        /\ Cell(i).filled

\* C16: every read and write before completion drives the one handshake
\* future made at accept: a stream starts with a future that was never
\* polled, the future only moves forward (it asks the resolver once and ends
\* once) and only a read or write of its own stream moves it; once it ended
\* Ok it never ends again.
C16_OneHandshakePerStream ==
    [][/\ \A i \in Conns :
            /\ conns'[i].accept # conns[i].accept
               => /\ <<conns[i].accept, conns'[i].accept>> \in
                        {<<"Start", "Resolved">>, <<"Start", "End">>,
                         <<"Resolved", "Done">>, <<"Resolved", "End">>}
                  /\ poll_read(i) \/ poll_write(i)
            /\ conns[i].presented # <<>>
               => conns'[i].presented = conns[i].presented
            /\ HandshakeDone(i) => conns'[i].peer = conns[i].peer
       /\ \A i \in (1..Len(conns')) \ Conns :
            conns'[i].accept = "Start" /\ conns'[i].presented = <<>>]_vars

\* A write completed a handshake that had asked the resolver in an earlier
\* call, while the other stream's own handshake is still to start.
C16_Witness ==
    \E i, j \in Conns :
        /\ HandshakeDone(i)
        /\ conns[i].pc = "state"
        /\ conns[i].op = "write"
        /\ conns[i].presented # <<>>
        /\ conns[j].accept = "Start"

\* C17: flush and shutdown never advance the handshake: on a Handshaking
\* stream they leave the state, the handshake future and the cell as they
\* were and return Ok at once when the raw socket cannot be reached (the
\* future has finished); otherwise they return what the raw socket, or when
\* Streaming the encrypted stream, answers.
C17_FlushShutdownLeaveHandshake ==
    [][\A i \in Conns :
         (poll_flush(i) \/ poll_shutdown(i))
         => /\ conns'[i].state = conns[i].state
            /\ conns'[i].accept = conns[i].accept
            /\ conns'[i].presented = conns[i].presented
            /\ conns'[i].peer = conns[i].peer
            /\ conns'[i].pc = "idle"
            /\ cells' = cells
            /\ conns'[i].ret \in IoResults
            /\ (conns[i].state = "Handshaking" /\ HandshakeFailed(i))
               => conns'[i].ret = "Ok"]_vars

\* A flush or shutdown returned Ok on a stream whose handshake had failed,
\* and one returned Pending on a stream whose handshake has not started.
C17_Witness ==
    \E i, j \in Conns :
        /\ conns[i].state = "Handshaking"
        /\ HandshakeFailed(i)
        /\ conns[i].ret = "Ok"
        /\ conns[j].state = "Handshaking"
        /\ conns[j].accept = "Start"
        /\ conns[j].ret = "Pending"

\* C18: a reload reads the sources again from their beginning, so a reload
\* triggered while nothing has been written to them since construction
\* succeeds and is about to assign the pair Resolver::new loaded.
C18_ReloadRereadsSources ==
    [][(updater_load /\ writes = 0)
       => /\ updater'.pc = "store"
          /\ ResolverConfig(updater'.cert_chain, updater'.private_key)
                = InitialConfig]_vars

\* A read on stream i in which the handshake calls resolve.
resolves(i) == poll_read(i) /\ conns'[i].accept = "Resolved"

C20_FailedBindLeavesNoTask ==
    bound.result = "Err" => updater.pc = "none"

====
